---- MODULE Spec2Model ----
(***************************************************************************)
(* A model of dzherb/go-itertools: lazy sequence combinators over          *)
(* iter.Seq.  A sequence source is modelled by what a consumer can pull    *)
(* from it; a combinator by its loop, one action per loop iteration.       *)
(*                                                                         *)
(*   Spec      the synchronous windowing combinators (Slice, Take, Limit,  *)
(*             TakeWhile, DropWhile), one drive at a time                  *)
(*   ZipSpec   one drive of Zip: two workers, the driving loop, two        *)
(*             unbuffered channels and the done channel                    *)
(*   OnceSpec  concurrent drive attempts of one Once-wrapped source        *)
(*   SeqSpec   every synchronous combinator but Once, one drive at a time, *)
(*             the same sequence driven again, FromChan over a channel     *)
(*             that a producer sends on and closes                         *)
(*   SyncSpec  SeqSpec and OnceSpec together                               *)
(*   ZipCycleSpec  Cycle2 over a Zip sequence: pass after pass             *)
(***************************************************************************)
EXTENDS Integers, Sequences, FiniteSets, TLC

\* Bounds of the model.
MaxLen == 3
MaxArg == 3
MaxBreak == 2
MaxPull == 5
MaxAttempts == 3
MaxChain == 3
MaxDrives == 2
IntBits == 4

\* Element values: two values are enough to tell positions apart and to
\* make every predicate over them expressible.
Vals == {1, 2}

VARIABLES
  src,      \* Spec: the upstream source of the current drive
  d,        \* Spec: the drive of the combinator under test
  hist,     \* SeqSpec: what the earlier drives of the same sequence yielded
  ch,       \* SeqSpec: the channel behind FromChan(ch)
  zsrc,     \* ZipSpec: <<first, second>>
  zbrk,     \* ZipSpec: the consumer breaks after this many pairs (0: never)
  chClosed, \* ZipSpec: chClosed[w], ch1 / ch2 closed
  done,     \* ZipSpec: the done channel is closed
  wk,       \* ZipSpec: wk[w], the worker goroutine of source w
  main,     \* ZipSpec: the driving loop
  prev,     \* ZipCycleSpec: the earlier passes of Cycle2 over the Zip sequence
  osrc,     \* OnceSpec: the wrapped source
  obrk,     \* OnceSpec: the consumers break after this many elements (0: never)
  consumed, \* OnceSpec: the consumed flag
  mu,       \* OnceSpec: holder of the mutex (0: free)
  att       \* OnceSpec: att[a], a drive attempt

vars == <<src, d, hist, ch, zsrc, zbrk, chClosed, done, wk, main, prev, osrc, obrk,
          consumed, mu, att>>

seqVars == <<src, d, hist, ch>>
zipVars == <<zsrc, zbrk, chClosed, done, wk, main, prev>>
onceVars == <<osrc, obrk, consumed, mu, att>>

-----------------------------------------------------------------------------
(* Sequence sources *)

SeqsUpTo(n) == UNION {[1..k -> Vals] : k \in 0..n}

\* FromElements(elems...): yields each element in order, then returns.
FromElements(elems) ==
  [kind |-> "elems", elems |-> elems, start |-> 0, step |-> 0]

\* Count(start, step): yields start, start+step, ... and never returns by itself.
Count(start, step) ==
  [kind |-> "count", elems |-> << >>, start |-> start, step |-> step]

\* FromChan(ch) over a channel holding buf that nobody closes: yields the
\* buffered values, then its receive suspends for ever.
FromChan(buf) ==
  [kind |-> "chan", elems |-> buf, start |-> 0, step |-> 0]

\* FromPairs(pairs): yields each pair as (key, value) in order, then returns.
FromPairs(pairs) ==
  [kind |-> "pairs", elems |-> pairs, start |-> 0, step |-> 0]

\* Go's int, scaled down to IntBits bits: arithmetic wraps around.
MinInt == 0 - 2 ^ (IntBits - 1)
MaxInt == 2 ^ (IntBits - 1) - 1
Wrap(x) == ((x - MinInt) % 2 ^ IntBits) + MinInt

\* After k elements were pulled from s: the source's loop has ended.
SrcEnded(s, k) == s.kind \in {"elems", "pairs"} /\ k >= Len(s.elems)

\* After k elements were pulled from s: the source hands over another one.
SrcHasNext(s, k) ==
  \/ s.kind = "count"
  \/ s.kind \in {"elems", "pairs", "chan"} /\ k < Len(s.elems)

\* The source is not suspended: it either yields or returns.
SrcReady(s, k) == SrcHasNext(s, k) \/ SrcEnded(s, k)

\* The element of s pulled after k earlier ones.
SrcAt(s, k) ==
  IF s.kind = "count" THEN Wrap(s.start + k * s.step) ELSE s.elems[k + 1]

\* The consumer's answer to yield, given everything it has received: a
\* range loop that breaks at its brk-th element (0: it never breaks).
ConsumerContinues(received, brk) == brk = 0 \/ Len(received) < brk

-----------------------------------------------------------------------------
(* Slice, Take, Limit, TakeWhile, DropWhile *)

slicePanicMessage == "itertools: step argument can't be negative"
divideMessage == "runtime error: integer divide by zero"

Idle ==
  [op |-> "none", start |-> 0, stop |-> 0, step |-> 1, pred |-> {}, brk |-> 0,
   i |-> 0, pulled |-> 0, out |-> << >>, pevals |-> 0, skip |-> TRUE,
   stopped |-> FALSE, status |-> "idle", err |-> "",
   iters |-> << >>, it |-> 0, pos |-> 0, passes |-> 0, driven |-> {},
   cur |-> 0, elem |-> 0, fn |-> << >>]

\* The closure a combinator returns, about to be driven by a consumer.
NewDrive(op, start, stop, step, pred, brk) ==
  [Idle EXCEPT !.op = op, !.start = start, !.stop = stop, !.step = step,
               !.pred = pred, !.brk = brk, !.status = "running"]

Panic(dr, msg) == [dr EXCEPT !.status = "panic", !.err = msg]
Return(dr) == [dr EXCEPT !.status = "returned"]

\* A variant that does not look at the consumer's answer.
YieldUnchecked(dr, v) ==
  LET got == [dr EXCEPT !.out = Append(@, v)]
  IN  IF ConsumerContinues(got.out, dr.brk) THEN got
      ELSE [got EXCEPT !.stopped = TRUE]

\* yield(v): the consumer receives v; its answer false ends the drive.
Yield(dr, v) ==
  LET got == [dr EXCEPT !.out = Append(@, v)]
  IN  IF ConsumerContinues(got.out, dr.brk) THEN got
      ELSE [got EXCEPT !.stopped = TRUE, !.status = "returned"]

\* The step guard of Slice and Slice2.
StepRejected(step) == step < 0

\* Slice(iter, start, stop, step): panics on a rejected step, else returns
\* the closure.
Slice(start, stop, step, brk) ==
  IF StepRejected(step)
  THEN Panic([Idle EXCEPT !.op = "Slice", !.start = start, !.stop = stop,
                          !.step = step], slicePanicMessage)
  ELSE NewDrive("Slice", start, stop, step, {}, brk)

\* Take(iter, n) == Slice(iter, 0, n, 1)
Take(n, brk) == [Slice(0, n, 1, brk) EXCEPT !.op = "Take"]

\* The window test of Slice's loop body; step = 0 is evaluated by the caller.
InWindow(i, start, stop) == i >= start /\ i < stop

\* A variant that counts the step from index 0 instead of from start.
OnStepAbsolute(i, start, step) == i % step = 0

\* (i-start)%step == 0
OnStep(i, start, step) == (i - start) % step = 0

\* A variant that never leaves the loop at stop.
SliceAdvanceNoStop(dr) == [dr EXCEPT !.i = @ + 1]

\* i++ ; if i >= stop { return }
SliceAdvance(dr) ==
  LET q == [dr EXCEPT !.i = @ + 1]
  IN  IF q.i >= q.stop THEN Return(q) ELSE q

\* One iteration of Slice's range loop over the upstream s.
SliceIter(dr, s) ==
  IF SrcEnded(s, dr.pulled) THEN Return(dr)
  ELSE LET v == SrcAt(s, dr.pulled)
           p == [dr EXCEPT !.pulled = @ + 1]
       IN  IF InWindow(p.i, p.start, p.stop)
           THEN IF p.step = 0 THEN Panic(p, divideMessage)
                ELSE IF OnStep(p.i, p.start, p.step)
                     THEN LET y == Yield(p, v)
                          IN  IF y.status = "returned" THEN y ELSE SliceAdvance(y)
                     ELSE SliceAdvance(p)
           ELSE SliceAdvance(p)

\* Slice2(iter, start, stop, step), the same guard over a pair sequence.
Slice2(start, stop, step, brk) ==
  IF StepRejected(step)
  THEN Panic([Idle EXCEPT !.op = "Slice2", !.start = start, !.stop = stop,
                          !.step = step], slicePanicMessage)
  ELSE NewDrive("Slice2", start, stop, step, {}, brk)

\* One iteration of Slice2's range loop over the upstream pair sequence s.
Slice2Iter(dr, s) ==
  IF SrcEnded(s, dr.pulled) THEN Return(dr)
  ELSE LET kv == SrcAt(s, dr.pulled)
           p == [dr EXCEPT !.pulled = @ + 1]
       IN  IF InWindow(p.i, p.start, p.stop)
           THEN IF p.step = 0 THEN Panic(p, divideMessage)
                ELSE IF OnStep(p.i, p.start, p.step)
                     THEN LET y == Yield(p, kv)
                          IN  IF y.status = "returned" THEN y ELSE SliceAdvance(y)
                     ELSE SliceAdvance(p)
           ELSE SliceAdvance(p)

\* Limit(iter, limit)
Limit(n, brk) == NewDrive("Limit", 0, n, 1, {}, brk)

\* i++ ; if !yield(v) || i >= limit { return }
LimitIter(dr, s) ==
  IF SrcEnded(s, dr.pulled) THEN Return(dr)
  ELSE LET v == SrcAt(s, dr.pulled)
           p == [dr EXCEPT !.pulled = @ + 1, !.i = @ + 1]
           y == Yield(p, v)
       IN  IF y.status = "returned" \/ y.i >= y.stop THEN Return(y) ELSE y

\* predicate(v), for the predicate that holds exactly of the values in p.
Predicate(p, v) == v \in p

TakeWhile(p, brk) == NewDrive("TakeWhile", 0, 0, 1, p, brk)

\* A variant that skips a failing element and goes on, as Filter does.
TakeWhileIterResuming(dr, s) ==
  IF SrcEnded(s, dr.pulled) THEN Return(dr)
  ELSE LET v == SrcAt(s, dr.pulled)
           p == [dr EXCEPT !.pulled = @ + 1, !.pevals = @ + 1]
       IN  IF ~Predicate(p.pred, v) THEN p ELSE Yield(p, v)

\* if !predicate(v) || !yield(v) { return }
TakeWhileIter(dr, s) ==
  IF SrcEnded(s, dr.pulled) THEN Return(dr)
  ELSE LET v == SrcAt(s, dr.pulled)
           p == [dr EXCEPT !.pulled = @ + 1, !.pevals = @ + 1]
       IN  IF ~Predicate(p.pred, v) THEN Return(p) ELSE Yield(p, v)

DropWhile(p, brk) == NewDrive("DropWhile", 0, 0, 1, p, brk)

\* A variant that never clears skip: it drops every element satisfying p.
DropWhileIterSticky(dr, s) ==
  IF SrcEnded(s, dr.pulled) THEN Return(dr)
  ELSE LET v == SrcAt(s, dr.pulled)
           p == [dr EXCEPT !.pulled = @ + 1, !.pevals = @ + 1]
       IN  IF Predicate(p.pred, v) THEN p ELSE Yield(p, v)

\* if skip { if predicate(v) { return true }; skip = false }; return yield(v)
DropWhileIter(dr, s) ==
  IF SrcEnded(s, dr.pulled) THEN Return(dr)
  ELSE LET v == SrcAt(s, dr.pulled)
           p == [dr EXCEPT !.pulled = @ + 1]
       IN  IF p.skip
           THEN LET e == [p EXCEPT !.pevals = @ + 1]
                IN  IF Predicate(e.pred, v) THEN e
                    ELSE Yield([e EXCEPT !.skip = FALSE], v)
           ELSE Yield(p, v)

-----------------------------------------------------------------------------
(* The sources driven directly, Keys, Values, Filter, Map, Enumerate,      *)
(* Repeat, Chain, Cycle                                                     *)

\* A consumer ranges over the source s itself.
Range(s, brk) ==
  CASE s.kind = "elems" -> NewDrive("FromElements", 0, 0, 1, {}, brk)
    [] s.kind = "pairs" -> NewDrive("FromPairs", 0, 0, 1, {}, brk)
    [] s.kind = "count" ->
         [NewDrive("Count", s.start, 0, s.step, {}, brk) EXCEPT !.cur = s.start]
    [] OTHER -> NewDrive("FromChan", 0, 0, 1, {}, brk)

\* for _, v := range elems { if !yield(v) { return } }
FromElementsIter(dr, s) ==
  IF SrcEnded(s, dr.pulled) THEN Return(dr)
  ELSE Yield([dr EXCEPT !.pulled = @ + 1], SrcAt(s, dr.pulled))

\* for _, pair := range pairs { if !yield(pair[0], pair[1]) { return } }
FromPairsIter(dr, s) ==
  IF SrcEnded(s, dr.pulled) THEN Return(dr)
  ELSE LET pair == SrcAt(s, dr.pulled)
       IN  Yield([dr EXCEPT !.pulled = @ + 1], <<pair[1], pair[2]>>)

\* A variant whose counter stays where it started.
CountIterStuck(dr) == Yield(dr, dr.cur)

\* if !yield(cur) { return }; cur += step
CountIter(dr) ==
  LET y == Yield(dr, dr.cur)
  IN  IF y.status = "returned" THEN y
      ELSE [y EXCEPT !.cur = Wrap(@ + y.step)]

Keys(brk) == NewDrive("Keys", 0, 0, 1, {}, brk)
Values(brk) == NewDrive("Values", 0, 0, 1, {}, brk)

\* for k, _ := range iter { if !yield(k) { return } }
KeysIter(dr, s) ==
  IF SrcEnded(s, dr.pulled) THEN Return(dr)
  ELSE Yield([dr EXCEPT !.pulled = @ + 1], SrcAt(s, dr.pulled)[1])

\* for _, v := range iter { if !yield(v) { return } }
ValuesIter(dr, s) ==
  IF SrcEnded(s, dr.pulled) THEN Return(dr)
  ELSE Yield([dr EXCEPT !.pulled = @ + 1], SrcAt(s, dr.pulled)[2])

Filter(p, brk) == NewDrive("Filter", 0, 0, 1, p, brk)

\* if predicate(v) && !yield(v) { return }
FilterIter(dr, s) ==
  IF SrcEnded(s, dr.pulled) THEN Return(dr)
  ELSE LET v == SrcAt(s, dr.pulled)
           p == [dr EXCEPT !.pulled = @ + 1, !.pevals = @ + 1]
       IN  IF Predicate(p.pred, v) THEN Yield(p, v) ELSE p

\* The mapper functions, over the element values.
Mappers == [Vals -> Vals]

Map(fn, brk) == [NewDrive("Map", 0, 0, 1, {}, brk) EXCEPT !.fn = fn]

\* if !yield(mapper(v)) { return }
MapIter(dr, s) ==
  IF SrcEnded(s, dr.pulled) THEN Return(dr)
  ELSE Yield([dr EXCEPT !.pulled = @ + 1], dr.fn[SrcAt(s, dr.pulled)])

Enumerate(brk) == NewDrive("Enumerate", 0, 0, 1, {}, brk)

\* A variant that numbers the elements from 1.
EnumerateIterFromOne(dr, s) ==
  IF SrcEnded(s, dr.pulled) THEN Return(dr)
  ELSE LET v == SrcAt(s, dr.pulled)
           p == [dr EXCEPT !.pulled = @ + 1, !.i = @ + 1]
       IN  Yield(p, <<p.i, v>>)

\* if !yield(i, v) { return }; i++
EnumerateIter(dr, s) ==
  IF SrcEnded(s, dr.pulled) THEN Return(dr)
  ELSE LET v == SrcAt(s, dr.pulled)
           p == [dr EXCEPT !.pulled = @ + 1]
           y == Yield(p, <<p.i, v>>)
       IN  IF y.status = "returned" THEN y ELSE [y EXCEPT !.i = @ + 1]

Repeat(elem, n, brk) ==
  [NewDrive("Repeat", 0, n, 1, {}, brk) EXCEPT !.elem = elem]

\* for i := 0; i < n; i++ { if !yield(elem) { return } }
RepeatIter(dr) ==
  IF dr.i < dr.stop
  THEN LET y == Yield(dr, dr.elem)
       IN  IF y.status = "returned" THEN y ELSE [y EXCEPT !.i = @ + 1]
  ELSE Return(dr)

Chain(iters, brk) ==
  [NewDrive("Chain", 0, 0, 1, {}, brk) EXCEPT !.iters = iters, !.it = 1]

Chain2(iters, brk) ==
  [NewDrive("Chain2", 0, 0, 1, {}, brk) EXCEPT !.iters = iters, !.it = 1]

\* A variant that goes on to the next source after the consumer's false.
ChainIterNextSource(dr) ==
  IF dr.it > Len(dr.iters) THEN Return(dr)
  ELSE LET s == dr.iters[dr.it]
           e == [dr EXCEPT !.driven = @ \cup {dr.it}]
       IN  IF SrcEnded(s, e.pos) THEN [e EXCEPT !.it = @ + 1, !.pos = 0]
           ELSE LET y == Yield([e EXCEPT !.pos = @ + 1, !.pulled = @ + 1],
                               SrcAt(s, e.pos))
                IN  IF y.status = "returned"
                    THEN [y EXCEPT !.status = "running", !.it = @ + 1, !.pos = 0]
                    ELSE y

\* for _, it := range iters { for v := range it { if !yield(v) { return } } },
\* one iteration of the inner loop, or the step from one source to the next.
ChainIter(dr) ==
  IF dr.it > Len(dr.iters) THEN Return(dr)
  ELSE LET s == dr.iters[dr.it]
           e == [dr EXCEPT !.driven = @ \cup {dr.it}]
       IN  IF SrcEnded(s, e.pos) THEN [e EXCEPT !.it = @ + 1, !.pos = 0]
           ELSE Yield([e EXCEPT !.pos = @ + 1, !.pulled = @ + 1], SrcAt(s, e.pos))

\* The same loops over pair sequences.
Chain2Iter(dr) ==
  IF dr.it > Len(dr.iters) THEN Return(dr)
  ELSE LET s == dr.iters[dr.it]
           e == [dr EXCEPT !.driven = @ \cup {dr.it}]
       IN  IF SrcEnded(s, e.pos) THEN [e EXCEPT !.it = @ + 1, !.pos = 0]
           ELSE Yield([e EXCEPT !.pos = @ + 1, !.pulled = @ + 1], SrcAt(s, e.pos))

Cycle(brk) == NewDrive("Cycle", 0, 0, 1, {}, brk)
Cycle2(brk) == NewDrive("Cycle2", 0, 0, 1, {}, brk)

\* A variant whose later passes start at the source's second element.
CycleIterFromSecond(dr, s) ==
  IF SrcEnded(s, dr.pos) THEN [dr EXCEPT !.pos = 1, !.passes = @ + 1]
  ELSE Yield([dr EXCEPT !.pos = @ + 1, !.pulled = @ + 1], SrcAt(s, dr.pos))

\* A variant that returns when the first pass is over.
CycleIterOnePass(dr, s) ==
  IF SrcEnded(s, dr.pos) THEN Return(dr)
  ELSE Yield([dr EXCEPT !.pos = @ + 1, !.pulled = @ + 1], SrcAt(s, dr.pos))

\* for { for v := range iter { if !yield(v) { return } } }, one iteration of
\* the inner loop, or the step from one pass to the next.
CycleIter(dr, s) ==
  IF SrcEnded(s, dr.pos) THEN [dr EXCEPT !.pos = 0, !.passes = @ + 1]
  ELSE Yield([dr EXCEPT !.pos = @ + 1, !.pulled = @ + 1], SrcAt(s, dr.pos))

\* The same loops over a pair sequence.
Cycle2Iter(dr, s) ==
  IF SrcEnded(s, dr.pos) THEN [dr EXCEPT !.pos = 0, !.passes = @ + 1]
  ELSE Yield([dr EXCEPT !.pos = @ + 1, !.pulled = @ + 1], SrcAt(s, dr.pos))

\* A variant of a new drive in which DropWhile's skip flag outlives the drive.
RedriveKeepingSkip(dr) ==
  [dr EXCEPT !.i = 0, !.pulled = 0,
             !.cur = IF dr.op = "Count" THEN dr.start ELSE 0,
             !.pos = 0, !.passes = 0, !.driven = {}, !.pevals = 0,
             !.it = IF dr.op \in {"Chain", "Chain2"} THEN 1 ELSE 0,
             !.out = << >>, !.stopped = FALSE, !.status = "running"]

\* The closure is driven again: its body runs from the top, so every local
\* it declares (i, skip, cur) is initialised anew, and a restartable
\* upstream is ranged over from its first element.
Redrive(dr) ==
  [dr EXCEPT !.i = 0, !.skip = TRUE, !.pulled = 0,
             !.cur = IF dr.op = "Count" THEN dr.start ELSE 0,
             !.pos = 0, !.passes = 0, !.driven = {}, !.pevals = 0,
             !.it = IF dr.op \in {"Chain", "Chain2"} THEN 1 ELSE 0,
             !.out = << >>, !.stopped = FALSE, !.status = "running"]

\* One iteration of the loop of the combinator that dr drives.
Iter(dr, s) ==
  CASE dr.op \in {"Slice", "Take"} -> SliceIter(dr, s)
    [] dr.op = "Slice2" -> Slice2Iter(dr, s)
    [] dr.op = "Limit" -> LimitIter(dr, s)
    [] dr.op = "TakeWhile" -> TakeWhileIter(dr, s)
    [] dr.op = "DropWhile" -> DropWhileIter(dr, s)
    [] dr.op = "FromElements" -> FromElementsIter(dr, s)
    [] dr.op = "FromPairs" -> FromPairsIter(dr, s)
    [] dr.op = "Keys" -> KeysIter(dr, s)
    [] dr.op = "Values" -> ValuesIter(dr, s)
    [] dr.op = "Filter" -> FilterIter(dr, s)
    [] dr.op = "Map" -> MapIter(dr, s)
    [] dr.op = "Enumerate" -> EnumerateIter(dr, s)
    [] OTHER -> dr

\* A whole drive: the loop run until the combinator returns or panics.
RECURSIVE Drive(_, _)
Drive(dr, s) ==
  IF dr.status # "running" \/ ~SrcReady(s, dr.pulled) THEN dr
  ELSE Drive(Iter(dr, s), s)

-----------------------------------------------------------------------------
(* Spec: one drive at a time of a windowing combinator *)

\* The iter.Seq sources: every short list, and some counters.
Sources ==
  {FromElements(e) : e \in SeqsUpTo(MaxLen)}
    \cup {Count(c, st) : c \in 0..1, st \in -1..1}

\* The iter.Seq2 sources: every short list, each element keyed by its position.
PairSources ==
  {FromPairs([j \in 1..Len(e) |-> <<j, e[j]>>]) : e \in SeqsUpTo(MaxLen)}

Args == 0..MaxArg
Steps == -1..2
Breaks == 0..MaxBreak
Preds == SUBSET Vals

\* No pass of Cycle2 over a Zip sequence is behind: no output, no worker
\* left over, no channel of an earlier drive.
NoPass ==
  [outs |-> << >>,
   wk |-> [w \in 1..2 |-> [pc |-> "idle", pulled |-> 0, hold |-> 0]],
   chClosed |-> [w \in 1..2 |-> FALSE],
   done |-> FALSE]

ZipIdle ==
  /\ prev = NoPass
  /\ zsrc = <<FromElements(<< >>), FromElements(<< >>)>>
  /\ zbrk = 0
  /\ chClosed = [w \in 1..2 |-> FALSE]
  /\ done = FALSE
  /\ wk = [w \in 1..2 |-> [pc |-> "idle", pulled |-> 0, hold |-> 0]]
  /\ main = [pc |-> "idle", k |-> 0, v |-> 0, ok1 |-> FALSE, ok2 |-> FALSE,
             out |-> << >>, stopped |-> FALSE]

OnceIdle ==
  /\ osrc = FromElements(<< >>)
  /\ obrk = 0
  /\ consumed = FALSE
  /\ mu = 0
  /\ att = << >>

\* A channel nobody has sent on.
NoChan == [buf |-> << >>, closed |-> FALSE, sent |-> << >>]

SeqIdle ==
  /\ src = FromElements(<< >>)
  /\ d = Idle
  /\ hist = << >>
  /\ ch = NoChan

Init ==
  /\ (src \in Sources \/ src \in PairSources)
  /\ d = Idle
  /\ hist = << >>
  /\ ch = NoChan
  /\ ZipIdle
  /\ OnceIdle

\* A combinator over iter.Seq is called when no drive is running.
CanCall == d.status # "running" /\ src.kind # "pairs"

\* A combinator over iter.Seq2 is called when no drive is running.
CanCall2 == d.status # "running" /\ src.kind = "pairs"

\* The loop of the running drive of op can make an iteration.
CanStep(ops) ==
  /\ d.status = "running"
  /\ d.op \in ops
  /\ SrcReady(src, d.pulled)
  /\ d.pulled < MaxPull

SliceCall ==
  /\ CanCall
  /\ \E start \in Args, stop \in Args, step \in Steps, brk \in Breaks :
       d' = Slice(start, stop, step, brk)
  /\ UNCHANGED <<src, hist, ch, zipVars, onceVars>>

Slice2Call ==
  /\ CanCall2
  /\ \E start \in Args, stop \in Args, step \in Steps, brk \in Breaks :
       d' = Slice2(start, stop, step, brk)
  /\ UNCHANGED <<src, hist, ch, zipVars, onceVars>>

TakeCall ==
  /\ CanCall
  /\ \E n \in Args, brk \in Breaks : d' = Take(n, brk)
  /\ UNCHANGED <<src, hist, ch, zipVars, onceVars>>

LimitCall ==
  /\ CanCall
  /\ \E n \in Args, brk \in Breaks : d' = Limit(n, brk)
  /\ UNCHANGED <<src, hist, ch, zipVars, onceVars>>

TakeWhileCall ==
  /\ CanCall
  /\ \E p \in Preds, brk \in Breaks : d' = TakeWhile(p, brk)
  /\ UNCHANGED <<src, hist, ch, zipVars, onceVars>>

DropWhileCall ==
  /\ CanCall
  /\ \E p \in Preds, brk \in Breaks : d' = DropWhile(p, brk)
  /\ UNCHANGED <<src, hist, ch, zipVars, onceVars>>

SliceStep ==
  /\ CanStep({"Slice", "Take"})
  /\ d' = SliceIter(d, src)
  /\ UNCHANGED <<src, hist, ch, zipVars, onceVars>>

Slice2Step ==
  /\ CanStep({"Slice2"})
  /\ d' = Slice2Iter(d, src)
  /\ UNCHANGED <<src, hist, ch, zipVars, onceVars>>

LimitStep ==
  /\ CanStep({"Limit"})
  /\ d' = LimitIter(d, src)
  /\ UNCHANGED <<src, hist, ch, zipVars, onceVars>>

TakeWhileStep ==
  /\ CanStep({"TakeWhile"})
  /\ d' = TakeWhileIter(d, src)
  /\ UNCHANGED <<src, hist, ch, zipVars, onceVars>>

DropWhileStep ==
  /\ CanStep({"DropWhile"})
  /\ d' = DropWhileIter(d, src)
  /\ UNCHANGED <<src, hist, ch, zipVars, onceVars>>

SeqStep ==
  \/ SliceStep
  \/ Slice2Step
  \/ LimitStep
  \/ TakeWhileStep
  \/ DropWhileStep

Next ==
  \/ SliceCall
  \/ TakeCall
  \/ LimitCall
  \/ TakeWhileCall
  \/ DropWhileCall
  \/ Slice2Call
  \/ SeqStep

Spec == Init /\ [][Next]_vars

\* The loop of a running drive is never starved.
FairSpec == Spec /\ WF_vars(SeqStep)

-----------------------------------------------------------------------------
(* ZipSpec: one drive of Zip(first, second) *)

\* The sources given to Zip: every short list, a counter, and channel-backed
\* sources whose channel is left open.
ZipSources ==
  {FromElements(e) : e \in SeqsUpTo(MaxLen)}
    \cup {Count(0, 1)}
    \cup {FromChan(b) : b \in SeqsUpTo(1)}

\* A worker pulls at most this many elements before the model stops it
\* (only two endless sources under a consumer that never breaks get there).
ZipMaxPull == MaxLen + 2

\* The state when the drive has made its channels and started both workers.
ZipInit ==
  /\ prev = NoPass
  /\ zsrc \in ZipSources \X ZipSources
  /\ zbrk \in Breaks
  /\ chClosed = [w \in 1..2 |-> FALSE]
  /\ done = FALSE
  /\ wk = [w \in 1..2 |-> [pc |-> "pull", pulled |-> 0, hold |-> 0]]
  /\ main = [pc |-> "recv1", k |-> 0, v |-> 0, ok1 |-> FALSE, ok2 |-> FALSE,
             out |-> << >>, stopped |-> FALSE]
  /\ SeqIdle
  /\ OnceIdle

\* A variant whose source runs ahead while an element waits to be sent.
WorkerPullAhead(w) ==
  /\ wk[w].pc \in {"pull", "select"}
  /\ SrcReady(zsrc[w], wk[w].pulled)
  /\ wk[w].pulled < ZipMaxPull
  /\ wk' = [wk EXCEPT ![w] =
               IF SrcEnded(zsrc[w], @.pulled) THEN [@ EXCEPT !.pc = "close"]
               ELSE [@ EXCEPT !.pc = "select", !.pulled = @ + 1,
                              !.hold = SrcAt(zsrc[w], wk[w].pulled)]]
  /\ UNCHANGED <<zsrc, zbrk, chClosed, done, main, prev, seqVars, onceVars>>

\* The source of worker w reaches its next element and calls the worker's
\* yield function with it, or has no more elements and returns.
WorkerPull(w) ==
  /\ wk[w].pc = "pull"
  /\ SrcReady(zsrc[w], wk[w].pulled)
  /\ wk[w].pulled < ZipMaxPull
  /\ wk' = [wk EXCEPT ![w] =
               IF SrcEnded(zsrc[w], @.pulled) THEN [@ EXCEPT !.pc = "close"]
               ELSE [@ EXCEPT !.pc = "select", !.pulled = @ + 1,
                              !.hold = SrcAt(zsrc[w], wk[w].pulled)]]
  /\ UNCHANGED <<zsrc, zbrk, chClosed, done, main, prev, seqVars, onceVars>>

\* case <-done: return false.  The source returns at once on false.
WorkerCancel(w) ==
  /\ wk[w].pc = "select"
  /\ done
  /\ wk' = [wk EXCEPT ![w].pc = "close"]
  /\ UNCHANGED <<zsrc, zbrk, chClosed, done, main, prev, seqVars, onceVars>>

\* defer close(ch): the worker's source has returned.
WorkerClose(w) ==
  /\ wk[w].pc = "close"
  /\ chClosed' = [chClosed EXCEPT ![w] = TRUE]
  /\ wk' = [wk EXCEPT ![w].pc = "exit"]
  /\ UNCHANGED <<zsrc, zbrk, done, main, prev, seqVars, onceVars>>

\* The cases of the driving loop's select on channel w that can proceed: a
\* worker waiting to send, the channel closed, done closed.
ReadyCases(w) ==
  (IF wk[w].pc = "select" THEN {"send"} ELSE {})
    \cup (IF chClosed[w] THEN {"closed"} ELSE {})
    \cup (IF done THEN {"done"} ELSE {})

\* The driving loop has both receives behind it.
AfterRecv(m, w) == [m EXCEPT !.pc = IF w = 1 THEN "recv2" ELSE "check"]

\* select { case x, ok = <-ch: ; case <-done: return }, on ch1 then on ch2.
\* A receive from a waiting worker is the handoff: the worker's send
\* completes in the same step and its yield function returns true.
MainRecv(w) ==
  /\ main.pc = (IF w = 1 THEN "recv1" ELSE "recv2")
  /\ \E c \in ReadyCases(w) :
       CASE c = "send" ->
              /\ main' = AfterRecv(IF w = 1
                                   THEN [main EXCEPT !.k = wk[w].hold, !.ok1 = TRUE]
                                   ELSE [main EXCEPT !.v = wk[w].hold, !.ok2 = TRUE], w)
              /\ wk' = [wk EXCEPT ![w].pc = "pull"]
         [] c = "closed" ->
              /\ main' = AfterRecv(IF w = 1
                                   THEN [main EXCEPT !.k = 0, !.ok1 = FALSE]
                                   ELSE [main EXCEPT !.v = 0, !.ok2 = FALSE], w)
              /\ wk' = wk
         [] c = "done" ->
              /\ main' = [main EXCEPT !.pc = "returned"]
              /\ wk' = wk
  /\ UNCHANGED <<zsrc, zbrk, chClosed, done, prev, seqVars, onceVars>>

\* A variant that stops only when both sources are exhausted.
BothExhausted(ok1, ok2) == ~ok1 /\ ~ok2

\* !ok1 || !ok2
EitherExhausted(ok1, ok2) == ~ok1 \/ ~ok2

\* A variant that closes done on exhaustion and goes round the loop again.
MainCheckGoesOn ==
  /\ main.pc = "check"
  /\ IF EitherExhausted(main.ok1, main.ok2)
     THEN /\ done' = TRUE
          /\ main' = [main EXCEPT !.pc = "recv1"]
     ELSE /\ done' = done
          /\ main' = [main EXCEPT !.pc = "yield"]
  /\ UNCHANGED <<zsrc, zbrk, chClosed, wk, prev, seqVars, onceVars>>

\* if !ok1 || !ok2 { close(done); return }
MainCheck ==
  /\ main.pc = "check"
  /\ IF EitherExhausted(main.ok1, main.ok2)
     THEN /\ done' = TRUE
          /\ main' = [main EXCEPT !.pc = "returned"]
     ELSE /\ done' = done
          /\ main' = [main EXCEPT !.pc = "yield"]
  /\ UNCHANGED <<zsrc, zbrk, chClosed, wk, prev, seqVars, onceVars>>

\* A variant that returns on the consumer's false without closing done.
MainYieldNoClose ==
  /\ main.pc = "yield"
  /\ LET got == Append(main.out, <<main.k, main.v>>)
     IN  IF ConsumerContinues(got, zbrk)
         THEN main' = [main EXCEPT !.out = got, !.pc = "recv1", !.k = 0,
                                   !.v = 0, !.ok1 = FALSE, !.ok2 = FALSE]
         ELSE main' = [main EXCEPT !.out = got, !.pc = "returned",
                                   !.stopped = TRUE]
  /\ UNCHANGED <<zsrc, zbrk, chClosed, done, wk, prev, seqVars, onceVars>>

\* A variant that closes done on the consumer's false and goes round the
\* loop again.
MainYieldGoesOn ==
  /\ main.pc = "yield"
  /\ LET got == Append(main.out, <<main.k, main.v>>)
     IN  /\ main' = [main EXCEPT !.out = got, !.pc = "recv1", !.k = 0, !.v = 0,
                                  !.ok1 = FALSE, !.ok2 = FALSE,
                                  !.stopped = ~ConsumerContinues(got, zbrk)]
         /\ done' = (done \/ ~ConsumerContinues(got, zbrk))
  /\ UNCHANGED <<zsrc, zbrk, chClosed, wk, prev, seqVars, onceVars>>

\* if !yield(k, v) { close(done); return }, else the next round of the loop
\* with fresh k, v, ok1, ok2.
MainYield ==
  /\ main.pc = "yield"
  /\ LET got == Append(main.out, <<main.k, main.v>>)
     IN  IF ConsumerContinues(got, zbrk)
         THEN /\ main' = [main EXCEPT !.out = got, !.pc = "recv1", !.k = 0,
                                       !.v = 0, !.ok1 = FALSE, !.ok2 = FALSE]
              /\ done' = done
         ELSE /\ main' = [main EXCEPT !.out = got, !.pc = "returned",
                                       !.stopped = TRUE]
              /\ done' = TRUE
  /\ UNCHANGED <<zsrc, zbrk, chClosed, wk, prev, seqVars, onceVars>>

Worker(w) == WorkerPull(w) \/ WorkerCancel(w) \/ WorkerClose(w)

Main == MainRecv(1) \/ MainRecv(2) \/ MainCheck \/ MainYield

ZipNext == (\E w \in 1..2 : Worker(w)) \/ Main

ZipSpec == ZipInit /\ [][ZipNext]_vars

\* Every goroutine that can run does run: the Go scheduler starves none.
ZipFairSpec ==
  /\ ZipSpec
  /\ \A w \in 1..2 : WF_vars(Worker(w))
  /\ WF_vars(Main)

-----------------------------------------------------------------------------
(* ZipCycleSpec: Cycle2(Zip(first, second)), the Zip sequence driven pass  *)
(* after pass while the workers of the pass before may still be running    *)

\* The restartable sources given to Zip under Cycle2.
CycleZipSources ==
  {FromElements(e) : e \in SeqsUpTo(MaxLen - 1)} \cup {Count(0, 1)}

ZipCycleInit ==
  /\ prev = NoPass
  /\ zsrc \in CycleZipSources \X CycleZipSources
  /\ zbrk \in Breaks
  /\ chClosed = [w \in 1..2 |-> FALSE]
  /\ done = FALSE
  /\ wk = [w \in 1..2 |-> [pc |-> "pull", pulled |-> 0, hold |-> 0]]
  /\ main = [pc |-> "recv1", k |-> 0, v |-> 0, ok1 |-> FALSE, ok2 |-> FALSE,
             out |-> << >>, stopped |-> FALSE]
  /\ SeqIdle
  /\ OnceIdle

\* A variant in which the channels are made once, outside the closure, and
\* serve every drive.
SameChannels(c, dn) == [chClosed |-> c, done |-> dn]

\* ch1 := make(chan K); ch2 := make(chan V); done := make(chan struct{}):
\* whatever the channels of the drive before have come to, this drive's
\* are new.
MakeChannels(c, dn) == [chClosed |-> [w \in 1..2 |-> FALSE], done |-> FALSE]

\* The Zip drive has returned by itself, so the inner range loop of Cycle2
\* is over and its outer loop drives the Zip sequence again: new channels,
\* new workers, the same consumer (with zbrk counting the pairs it still
\* takes).  The workers of the drive before are left to themselves; the
\* model follows two generations of workers at a time.
ZipRedrive ==
  /\ main.pc = "returned" /\ ~main.stopped
  /\ Len(prev.outs) < MaxDrives - 1
  /\ \A w \in 1..2 : prev.wk[w].pc \in {"idle", "exit"}
  /\ prev' = [outs |-> Append(prev.outs, main.out), wk |-> wk,
              chClosed |-> chClosed, done |-> done]
  /\ LET c == MakeChannels(chClosed, done)
     IN  chClosed' = c.chClosed /\ done' = c.done
  /\ wk' = [w \in 1..2 |-> [pc |-> "pull", pulled |-> 0, hold |-> 0]]
  /\ main' = [pc |-> "recv1", k |-> 0, v |-> 0, ok1 |-> FALSE, ok2 |-> FALSE,
              out |-> << >>, stopped |-> FALSE]
  /\ zbrk' = IF zbrk = 0 THEN 0 ELSE zbrk - Len(main.out)
  /\ UNCHANGED <<zsrc, seqVars, onceVars>>

\* A worker of the drive before goes on in its source.
OldWorkerPull(w) ==
  /\ prev.wk[w].pc = "pull"
  /\ SrcReady(zsrc[w], prev.wk[w].pulled)
  /\ prev.wk[w].pulled < ZipMaxPull
  /\ prev' = [prev EXCEPT !.wk[w] =
                 IF SrcEnded(zsrc[w], @.pulled) THEN [@ EXCEPT !.pc = "close"]
                 ELSE [@ EXCEPT !.pc = "select", !.pulled = @ + 1,
                                !.hold = SrcAt(zsrc[w], prev.wk[w].pulled)]]
  /\ UNCHANGED <<zsrc, zbrk, chClosed, done, wk, main, seqVars, onceVars>>

\* Its select finds its own drive's done closed; nobody receives on its
\* channel any more.
OldWorkerCancel(w) ==
  /\ prev.wk[w].pc = "select"
  /\ prev.done
  /\ prev' = [prev EXCEPT !.wk[w].pc = "close"]
  /\ UNCHANGED <<zsrc, zbrk, chClosed, done, wk, main, seqVars, onceVars>>

\* defer close(ch), on the channel of its own drive.
OldWorkerClose(w) ==
  /\ prev.wk[w].pc = "close"
  /\ prev' = [prev EXCEPT !.wk[w].pc = "exit", !.chClosed[w] = TRUE]
  /\ UNCHANGED <<zsrc, zbrk, chClosed, done, wk, main, seqVars, onceVars>>

OldWorker(w) == OldWorkerPull(w) \/ OldWorkerCancel(w) \/ OldWorkerClose(w)

ZipCycleNext == ZipNext \/ ZipRedrive \/ (\E w \in 1..2 : OldWorker(w))

ZipCycleSpec == ZipCycleInit /\ [][ZipCycleNext]_vars

-----------------------------------------------------------------------------
(* OnceSpec: drive attempts of one sequence returned by Once(iter) *)

Attempts == 1..MaxAttempts

\* Once(iter) has returned its closure: nothing consumed, the mutex free,
\* and every attempt about to call the closure.
OnceInit ==
  /\ osrc \in {FromElements(e) : e \in SeqsUpTo(MaxLen)}
  /\ obrk \in Breaks
  /\ consumed = FALSE
  /\ mu = 0
  /\ att = [a \in Attempts |-> [pc |-> "start", pulled |-> 0, out |-> << >>]]
  /\ SeqIdle
  /\ ZipIdle

\* A variant of the mutex that lets everyone in.
MutexOpen(m) == TRUE

\* sync.Mutex: Lock goes through when nobody holds it.
MutexFree(m) == m = 0

\* mu.Lock()
OnceLock(a) ==
  /\ att[a].pc = "start"
  /\ MutexFree(mu)
  /\ mu' = a
  /\ att' = [att EXCEPT ![a].pc = "locked"]
  /\ UNCHANGED <<osrc, obrk, consumed, seqVars, zipVars>>

\* if consumed { ... }
OnceTest(a) ==
  /\ att[a].pc = "locked"
  /\ att' = [att EXCEPT ![a].pc = IF consumed THEN "reject" ELSE "mark"]
  /\ UNCHANGED <<osrc, obrk, consumed, mu, seqVars, zipVars>>

\* A variant that panics with the mutex still locked.
OncePanicLocked(a) ==
  /\ att[a].pc = "reject"
  /\ mu' = mu
  /\ att' = [att EXCEPT ![a].pc = "panic"]
  /\ UNCHANGED <<osrc, obrk, consumed, seqVars, zipVars>>

\* mu.Unlock(); panic("itertools: iterator can only be consumed once")
OncePanic(a) ==
  /\ att[a].pc = "reject"
  /\ mu' = 0
  /\ att' = [att EXCEPT ![a].pc = "panic"]
  /\ UNCHANGED <<osrc, obrk, consumed, seqVars, zipVars>>

\* consumed = true
OnceMark(a) ==
  /\ att[a].pc = "mark"
  /\ consumed' = TRUE
  /\ att' = [att EXCEPT ![a].pc = "unlock"]
  /\ UNCHANGED <<osrc, obrk, mu, seqVars, zipVars>>

\* mu.Unlock()
OnceUnlock(a) ==
  /\ att[a].pc = "unlock"
  /\ mu' = 0
  /\ att' = [att EXCEPT ![a].pc = "iter"]
  /\ UNCHANGED <<osrc, obrk, consumed, seqVars, zipVars>>

\* for v := range iter { if !yield(v) { return } }, one iteration.
OnceIter(a) ==
  /\ att[a].pc = "iter"
  /\ SrcReady(osrc, att[a].pulled)
  /\ att' = [att EXCEPT ![a] =
                IF SrcEnded(osrc, @.pulled) THEN [@ EXCEPT !.pc = "returned"]
                ELSE LET got == Append(@.out, SrcAt(osrc, @.pulled))
                     IN  [@ EXCEPT !.pulled = @ + 1, !.out = got,
                                   !.pc = IF ConsumerContinues(got, obrk)
                                          THEN "iter" ELSE "returned"]]
  /\ UNCHANGED <<osrc, obrk, consumed, mu, seqVars, zipVars>>

OnceNext ==
  \E a \in Attempts :
    \/ OnceLock(a)
    \/ OnceTest(a)
    \/ OncePanic(a)
    \/ OnceMark(a)
    \/ OnceUnlock(a)
    \/ OnceIter(a)

\* The steps of attempt a.
OnceAttempt(a) ==
  \/ OnceLock(a)
  \/ OnceTest(a)
  \/ OncePanic(a)
  \/ OnceMark(a)
  \/ OnceUnlock(a)
  \/ OnceIter(a)

OnceSpec == OnceInit /\ [][OnceNext]_vars

\* Every goroutine that can run does run, and a goroutine waiting in
\* mu.Lock() gets the mutex once it stays free.
OnceFairSpec == OnceSpec /\ \A a \in Attempts : WF_vars(OnceAttempt(a))

-----------------------------------------------------------------------------
(* SeqSpec: every synchronous combinator but Once, one drive at a time,   *)
(* and the same sequence driven again                                      *)

\* FromChan(ch) over the channel ch of the model, which a producer sends on
\* and closes while the sequence is driven.
FromChanLive == [kind |-> "live", elems |-> << >>, start |-> 0, step |-> 0]

\* Counters that reach the ends of the int range within a few elements.
EdgeCounters == {Count(MaxInt, 1), Count(MinInt, 0 - 1), Count(MaxInt - 1, 2)}

SeqInit ==
  /\ \/ (src \in Sources \/ src \in PairSources \/ src \in EdgeCounters)
        /\ ch = NoChan
     \/ /\ src = FromChanLive
        /\ \E b \in SeqsUpTo(MaxLen - 1), c \in BOOLEAN :
             ch = [buf |-> b, closed |-> c, sent |-> b]
  /\ d = Idle
  /\ hist = << >>
  /\ ZipIdle
  /\ OnceIdle

\* No combinator was applied to src yet.
Fresh == d.status = "idle"

\* The windowing combinators applied to a source that is not channel-backed.
WindowCall ==
  /\ Fresh
  /\ src.kind # "live"
  /\ \/ SliceCall
     \/ TakeCall
     \/ LimitCall
     \/ TakeWhileCall
     \/ DropWhileCall
     \/ Slice2Call

\* for ... := range src
RangeCall ==
  /\ Fresh
  /\ \E brk \in Breaks : d' = Range(src, brk)
  /\ UNCHANGED <<src, hist, ch, zipVars, onceVars>>

KeysCall ==
  /\ Fresh /\ src.kind = "pairs"
  /\ \E brk \in Breaks : d' = Keys(brk)
  /\ UNCHANGED <<src, hist, ch, zipVars, onceVars>>

ValuesCall ==
  /\ Fresh /\ src.kind = "pairs"
  /\ \E brk \in Breaks : d' = Values(brk)
  /\ UNCHANGED <<src, hist, ch, zipVars, onceVars>>

FilterCall ==
  /\ Fresh /\ src.kind \in {"elems", "count"}
  /\ \E p \in Preds, brk \in Breaks : d' = Filter(p, brk)
  /\ UNCHANGED <<src, hist, ch, zipVars, onceVars>>

MapCall ==
  /\ Fresh /\ src.kind = "elems"
  /\ \E fn \in Mappers, brk \in Breaks : d' = Map(fn, brk)
  /\ UNCHANGED <<src, hist, ch, zipVars, onceVars>>

EnumerateCall ==
  /\ Fresh /\ src.kind \in {"elems", "count"}
  /\ \E brk \in Breaks : d' = Enumerate(brk)
  /\ UNCHANGED <<src, hist, ch, zipVars, onceVars>>

RepeatCall ==
  /\ Fresh
  /\ \E elem \in Vals, n \in Args, brk \in Breaks : d' = Repeat(elem, n, brk)
  /\ UNCHANGED <<src, hist, ch, zipVars, onceVars>>

\* The j-th argument of Chain, n elements long: its elements name it.
Tagged(j, n) == FromElements([m \in 1..n |-> 10 * j + m])

\* The j-th argument of Chain2.
Tagged2(j, n) == FromPairs([m \in 1..n |-> <<m, 10 * j + m>>])

\* Chain(src, more...): src followed by sources of the given lengths.
ChainArgs(lens) == <<src>> \o [j \in 1..Len(lens) |-> Tagged(j + 1, lens[j])]

\* Chain2(src, more...)
Chain2Args(lens) == <<src>> \o [j \in 1..Len(lens) |-> Tagged2(j + 1, lens[j])]

\* The lengths of the sources that follow src.
TailLens == UNION {[1..k -> 0..(MaxLen - 1)] : k \in 0..(MaxChain - 1)}

ChainCall ==
  /\ Fresh /\ src.kind = "elems"
  /\ \E brk \in Breaks :
       \/ d' = Chain(<< >>, brk)
       \/ \E lens \in TailLens : d' = Chain(ChainArgs(lens), brk)
  /\ UNCHANGED <<src, hist, ch, zipVars, onceVars>>

Chain2Call ==
  /\ Fresh /\ src.kind = "pairs"
  /\ \E brk \in Breaks :
       \/ d' = Chain2(<< >>, brk)
       \/ \E lens \in TailLens : d' = Chain2(Chain2Args(lens), brk)
  /\ UNCHANGED <<src, hist, ch, zipVars, onceVars>>

CycleCall ==
  /\ Fresh /\ src.kind \in {"elems", "count"}
  /\ \E brk \in Breaks : d' = Cycle(brk)
  /\ UNCHANGED <<src, hist, ch, zipVars, onceVars>>

Cycle2Call ==
  /\ Fresh /\ src.kind = "pairs"
  /\ \E brk \in Breaks : d' = Cycle2(brk)
  /\ UNCHANGED <<src, hist, ch, zipVars, onceVars>>

FromElementsStep ==
  /\ CanStep({"FromElements"})
  /\ d' = FromElementsIter(d, src)
  /\ UNCHANGED <<src, hist, ch, zipVars, onceVars>>

FromPairsStep ==
  /\ CanStep({"FromPairs"})
  /\ d' = FromPairsIter(d, src)
  /\ UNCHANGED <<src, hist, ch, zipVars, onceVars>>

CountStep ==
  /\ d.status = "running" /\ d.op = "Count"
  /\ Len(d.out) < MaxPull
  /\ d' = CountIter(d)
  /\ UNCHANGED <<src, hist, ch, zipVars, onceVars>>

\* A variant that receives two values at a time and yields the first.
FromChanStepReadAhead ==
  /\ d.status = "running" /\ d.op = "FromChan"
  /\ IF ch.buf # << >>
     THEN /\ d' = Yield([d EXCEPT !.pulled = @ + 1], Head(ch.buf))
          /\ ch' = [ch EXCEPT !.buf = IF Len(@) > 1 THEN Tail(Tail(@)) ELSE << >>]
     ELSE /\ ch.closed
          /\ d' = Return(d)
          /\ ch' = ch
  /\ UNCHANGED <<src, hist, zipVars, onceVars>>

\* for v := range ch { if !yield(v) { return } }, one iteration: the receive
\* takes the oldest value, suspends on an empty open channel, and ends the
\* loop on an empty closed one.
FromChanStep ==
  /\ d.status = "running" /\ d.op = "FromChan"
  /\ IF ch.buf # << >>
     THEN /\ d' = Yield([d EXCEPT !.pulled = @ + 1], Head(ch.buf))
          /\ ch' = [ch EXCEPT !.buf = Tail(@)]
     ELSE /\ ch.closed
          /\ d' = Return(d)
          /\ ch' = ch
  /\ UNCHANGED <<src, hist, zipVars, onceVars>>

\* The producer sends v: ch <- v.
ChanSend ==
  /\ src.kind = "live"
  /\ ~ch.closed
  /\ Len(ch.sent) < MaxLen
  /\ \E v \in Vals :
       ch' = [ch EXCEPT !.buf = Append(@, v), !.sent = Append(@, v)]
  /\ UNCHANGED <<src, d, hist, zipVars, onceVars>>

\* The producer closes the channel: close(ch).
ChanClose ==
  /\ src.kind = "live"
  /\ ~ch.closed
  /\ ch' = [ch EXCEPT !.closed = TRUE]
  /\ UNCHANGED <<src, d, hist, zipVars, onceVars>>

KeysStep ==
  /\ CanStep({"Keys"})
  /\ d' = KeysIter(d, src)
  /\ UNCHANGED <<src, hist, ch, zipVars, onceVars>>

ValuesStep ==
  /\ CanStep({"Values"})
  /\ d' = ValuesIter(d, src)
  /\ UNCHANGED <<src, hist, ch, zipVars, onceVars>>

FilterStep ==
  /\ CanStep({"Filter"})
  /\ d' = FilterIter(d, src)
  /\ UNCHANGED <<src, hist, ch, zipVars, onceVars>>

MapStep ==
  /\ CanStep({"Map"})
  /\ d' = MapIter(d, src)
  /\ UNCHANGED <<src, hist, ch, zipVars, onceVars>>

EnumerateStep ==
  /\ CanStep({"Enumerate"})
  /\ d' = EnumerateIter(d, src)
  /\ UNCHANGED <<src, hist, ch, zipVars, onceVars>>

RepeatStep ==
  /\ d.status = "running" /\ d.op = "Repeat"
  /\ d' = RepeatIter(d)
  /\ UNCHANGED <<src, hist, ch, zipVars, onceVars>>

ChainStep ==
  /\ d.status = "running" /\ d.op = "Chain"
  /\ d' = ChainIter(d)
  /\ UNCHANGED <<src, hist, ch, zipVars, onceVars>>

Chain2Step ==
  /\ d.status = "running" /\ d.op = "Chain2"
  /\ d' = Chain2Iter(d)
  /\ UNCHANGED <<src, hist, ch, zipVars, onceVars>>

\* The model follows an endless Cycle for MaxPull elements or passes.
CanCycle(op) ==
  /\ d.status = "running" /\ d.op = op
  /\ d.pulled < MaxPull
  /\ d.passes < MaxPull

CycleStep ==
  /\ CanCycle("Cycle")
  /\ d' = CycleIter(d, src)
  /\ UNCHANGED <<src, hist, ch, zipVars, onceVars>>

Cycle2Step ==
  /\ CanCycle("Cycle2")
  /\ d' = Cycle2Iter(d, src)
  /\ UNCHANGED <<src, hist, ch, zipVars, onceVars>>

\* The consumer ranges over the same sequence once more.
RedriveStep ==
  /\ d.status = "returned"
  /\ Len(hist) < MaxDrives - 1
  /\ d' = Redrive(d)
  /\ hist' = Append(hist, d.out)
  /\ UNCHANGED <<src, ch, zipVars, onceVars>>

SeqCall ==
  \/ WindowCall
  \/ RangeCall
  \/ KeysCall
  \/ ValuesCall
  \/ FilterCall
  \/ MapCall
  \/ EnumerateCall
  \/ RepeatCall
  \/ ChainCall
  \/ Chain2Call
  \/ CycleCall
  \/ Cycle2Call

SeqLoop ==
  \/ SeqStep
  \/ FromElementsStep
  \/ FromPairsStep
  \/ CountStep
  \/ FromChanStep
  \/ KeysStep
  \/ ValuesStep
  \/ FilterStep
  \/ MapStep
  \/ EnumerateStep
  \/ RepeatStep
  \/ ChainStep
  \/ Chain2Step
  \/ CycleStep
  \/ Cycle2Step

SeqNext == SeqCall \/ SeqLoop \/ RedriveStep \/ ChanSend \/ ChanClose

SeqSpec == SeqInit /\ [][SeqNext]_vars

-----------------------------------------------------------------------------
(* SyncSpec: the synchronous combinators all together, a world of SeqSpec *)
(* or a world of OnceSpec                                                  *)

SyncInit == SeqInit \/ OnceInit

SyncNext ==
  \/ att = << >> /\ SeqNext
  \/ att # << >> /\ OnceNext

SyncSpec == SyncInit /\ [][SyncNext]_vars

-----------------------------------------------------------------------------
(* Properties of the windowing combinators, checked under Spec / FairSpec *)

Min(a, b) == IF a < b THEN a ELSE b

Finite(s) == s.kind \in {"elems", "pairs"}

\* A drive that ran to its end under a consumer that never breaks.
FullDrive(ops) ==
  d.op \in ops /\ d.status = "returned" /\ d.brk = 0 /\ ~d.stopped

\* The elements of elems at the indices i (from 0) with start <= i < stop
\* and (i - start) mod step = 0, in increasing index order.
WindowSeq(elems, start, stop, step) ==
  LET idx == [j \in 1..Len(elems) |-> j - 1]
      Keep(i) == i >= start /\ i < stop /\ (i - start) % step = 0
      sel == SelectSeq(idx, Keep)
  IN  [j \in 1..Len(sel) |-> elems[sel[j] + 1]]

\* C4: a full drive of Slice (Slice2 on a pair source) over a finite source
\* with start, stop >= 0 and step >= 1 yields exactly the elements at the
\* original indices i with start <= i < stop, i < |S| and
\* (i - start) mod step = 0, in increasing index order, each once; and such
\* a drive never panics.
C4_SliceWindow ==
  /\ (FullDrive({"Slice", "Slice2"}) /\ d.step >= 1 /\ Finite(src))
       => d.out = WindowSeq(src.elems, d.start, d.stop, d.step)
  /\ (d.op \in {"Slice", "Slice2"} /\ d.step >= 1) => d.status # "panic"

\* A Slice with start = 1 and step = 2 over three elements has yielded the
\* element at index 1 only.
C4_Witness ==
  /\ FullDrive({"Slice"}) /\ src.kind = "elems" /\ Len(src.elems) = 3
  /\ d.start = 1 /\ d.stop = 3 /\ d.step = 2
  /\ d.out = <<src.elems[2]>>

\* The pair analogue: Slice2 with start = 1, step = 2 over three pairs.
C4_Witness2 ==
  /\ FullDrive({"Slice2"}) /\ Len(src.elems) = 3
  /\ d.start = 1 /\ d.stop = 3 /\ d.step = 2
  /\ d.out = <<src.elems[2]>>

\* C5: Slice and Slice2 called with step <= 0 always raise the
\* invalid-argument error, for any start, stop and source, and yield nothing.
C5_StepNotPositiveRaises ==
  (d.op \in {"Slice", "Slice2"} /\ d.step <= 0)
    => (d.status = "panic" /\ d.err = slicePanicMessage /\ d.out = << >>)

\* What the code does with a negative step: the invalid-argument panic at
\* the call, before anything is pulled.
C5_NegativeStepRaises ==
  (d.op \in {"Slice", "Slice2"} /\ d.step < 0)
    => (d.status = "panic" /\ d.err = slicePanicMessage /\ d.pulled = 0)

\* What the code does with step = 0: no panic at the call; the drive dies of
\* the division once an index reaches the window, and returns silently with
\* nothing yielded when none does.
C5_ZeroStepOutcome ==
  (d.op \in {"Slice", "Slice2"} /\ d.step = 0 /\ d.status # "running")
    => /\ d.out = << >>
       /\ d.err # slicePanicMessage
       /\ d.status = "panic" <=> (d.start < d.stop /\ SrcHasNext(src, d.start))

\* The first n elements of s (all of s when it is shorter).
Prefix(s, n) ==
  [j \in 1..(IF Finite(s) THEN Min(n, Len(s.elems)) ELSE n) |-> SrcAt(s, j - 1)]

\* C6: a full drive of Take(S, n), S finite or infinite, n >= 0, terminates
\* and yields exactly the first min(n, |S|) elements of S, in order.
C6_TakePrefix ==
  /\ [](FullDrive({"Take"}) => d.out = Prefix(src, d.stop))
  /\ (d.op = "Take" /\ d.status = "running")
       ~> (d.op = "Take" /\ d.status = "returned")

\* Take(Count(c, st), 2) has returned with two elements.
C6_Witness ==
  /\ FullDrive({"Take"}) /\ src.kind = "count" /\ d.stop = 2
  /\ d.out = <<src.start, src.start + src.step>>

\* C7: a full drive of Limit(S, n) yields the same elements as a full drive
\* of Take(S, n), for every S and every n >= 0, n = 0 included.
C7_LimitSameAsTake ==
  FullDrive({"Limit"}) => d.out = Drive(Take(d.stop, 0), src).out

\* Where the two agree: for n >= 1.
C7_LimitSameAsTakeFromOne ==
  (FullDrive({"Limit"}) /\ d.stop >= 1) => d.out = Drive(Take(d.stop, 0), src).out

\* C9: over a finite source S and a predicate p, the elements yielded by
\* TakeWhile(S, p) followed by those yielded by DropWhile(S, p) are the
\* elements of S in order.
C9_TakeDropPartition ==
  /\ (FullDrive({"TakeWhile"}) /\ src.kind = "elems")
       => d.out \o Drive(DropWhile(d.pred, 0), src).out = src.elems
  /\ (FullDrive({"DropWhile"}) /\ src.kind = "elems")
       => Drive(TakeWhile(d.pred, 0), src).out \o d.out = src.elems

\* A DropWhile that skipped one element and yielded two, the second of
\* which satisfies p again.
C9_Witness ==
  /\ FullDrive({"DropWhile"}) /\ src.kind = "elems" /\ Len(src.elems) = 3
  /\ Len(d.out) = 2
  /\ Predicate(d.pred, src.elems[3])

\* The length of the longest prefix of s whose elements all satisfy p
\* (looked for among the first MaxPull elements).
PrefixLen(s, p) ==
  LET stops == {k \in 0..MaxPull : SrcEnded(s, k) \/ ~Predicate(p, SrcAt(s, k))}
  IN  IF stops = {} THEN MaxPull + 1
      ELSE CHOOSE k \in stops : \A j \in stops : k <= j

\* C10: TakeWhile(S, p) yields exactly the longest prefix of S whose
\* elements all satisfy p: it stops at the first failing element without
\* yielding it, yields nothing after it, and evaluates p on no element
\* after it.
C10_TakeWhilePrefix ==
  d.op = "TakeWhile" =>
    LET n == PrefixLen(src, d.pred)
    IN  /\ Len(d.out) <= n
        /\ \A j \in 1..Len(d.out) : d.out[j] = SrcAt(src, j - 1)
        /\ d.pevals <= n + 1
        /\ d.pevals = d.pulled
        /\ FullDrive({"TakeWhile"}) =>
              /\ Len(d.out) = n
              /\ d.pevals = IF SrcEnded(src, n) THEN n ELSE n + 1

\* TakeWhile stopped at a failing second element although the third
\* satisfies p again: one element yielded, p evaluated twice.
C10_Witness ==
  /\ FullDrive({"TakeWhile"}) /\ src.kind = "elems" /\ Len(src.elems) = 3
  /\ ~Predicate(d.pred, src.elems[2]) /\ Predicate(d.pred, src.elems[3])
  /\ Len(d.out) = 1 /\ d.pevals = 2

-----------------------------------------------------------------------------
(* Properties of Zip, checked under ZipSpec / ZipFairSpec *)

ListSource(s) == s.kind = "elems"

\* C1: every pair that a drive of Zip yields combines the elements of first
\* and second at the pair's own index, and a full drive over two finite
\* sources yields exactly min(|first|, |second|) pairs.
C1_ZipPairs ==
  /\ \A j \in 1..Len(main.out) :
        /\ SrcHasNext(zsrc[1], j - 1)
        /\ SrcHasNext(zsrc[2], j - 1)
        /\ main.out[j] = <<SrcAt(zsrc[1], j - 1), SrcAt(zsrc[2], j - 1)>>
  /\ (main.pc = "returned" /\ zbrk = 0 /\ ListSource(zsrc[1]) /\ ListSource(zsrc[2]))
       => Len(main.out) = Min(Len(zsrc[1].elems), Len(zsrc[2].elems))

\* A full drive over three and two elements has returned with two pairs.
C1_Witness ==
  /\ main.pc = "returned" /\ zbrk = 0
  /\ ListSource(zsrc[1]) /\ Len(zsrc[1].elems) = 3
  /\ ListSource(zsrc[2]) /\ Len(zsrc[2].elems) = 2
  /\ Len(main.out) = 2

\* The source never suspends for ever inside its own production step.
NeverSuspends(s) == s.kind # "chan"

WorkerGone(w) == wk[w].pc = "exit" /\ chClosed[w]

\* The worker is suspended inside its source, not on a handoff.
WorkerInSource(w) == wk[w].pc = "pull" /\ ~SrcReady(zsrc[w], wk[w].pulled)

C2_WitnessFirstExhausts ==
  /\ main.pc = "returned" /\ ~main.stopped /\ ListSource(zsrc[1]) /\ ListSource(zsrc[2])
  /\ Len(zsrc[1].elems) = 1 /\ Len(zsrc[2].elems) = 3
  /\ WorkerGone(1) /\ WorkerGone(2)

C2_WitnessSecondExhausts ==
  /\ main.pc = "returned" /\ ~main.stopped /\ ListSource(zsrc[1]) /\ ListSource(zsrc[2])
  /\ Len(zsrc[1].elems) = 3 /\ Len(zsrc[2].elems) = 1
  /\ WorkerGone(1) /\ WorkerGone(2)

C2_WitnessBothExhaust ==
  /\ main.pc = "returned" /\ ~main.stopped /\ ListSource(zsrc[1]) /\ ListSource(zsrc[2])
  /\ Len(zsrc[1].elems) = 2 /\ Len(zsrc[2].elems) = 2
  /\ WorkerGone(1) /\ WorkerGone(2)

EmptyFirst == zsrc[1] = FromElements(<< >>)

\* C3: a drive of Zip whose first source is empty yields no pair and
\* returns, whatever the second source is: it never comes to rest before
\* the driving loop has returned.
C3_EmptyFirstReturns ==
  EmptyFirst => (main.out = << >> /\ (main.pc = "returned" \/ ENABLED ZipNext))

\* The same as a liveness property.
C3_EmptyFirstEventuallyReturns == EmptyFirst ~> (main.pc = "returned")

\* What the code does guarantee: with a second source that never suspends
\* for ever, the drive over an empty first source returns with no pair.
C3_EmptyFirstReturnsIfSecondResumes ==
  (EmptyFirst /\ NeverSuspends(zsrc[2]))
    => (main.out = << >> /\ (main.pc = "returned" \/ ENABLED ZipNext))

-----------------------------------------------------------------------------
(* Properties of Once, checked under OnceSpec *)

\* The attempts that passed the consumed test.
Admitted == {a \in Attempts : att[a].pc \in {"mark", "unlock", "iter", "returned"}}

\* The attempts that failed it.
Rejected == {a \in Attempts : att[a].pc \in {"reject", "panic"}}

\* C8: of any number of drive attempts of one Once-wrapped source, in any
\* interleaving, exactly one proceeds to iterate the upstream source and
\* yields its elements; every other attempt raises the reuse error and has
\* pulled nothing from upstream.
C8_OnceExactlyOne ==
  /\ Cardinality(Admitted) <= 1
  /\ \A a \in Rejected : att[a].pulled = 0 /\ att[a].out = << >>
  /\ \A a \in Attempts : att[a].pulled > 0 => a \in Admitted
  /\ (Admitted \cup Rejected = Attempts) => Cardinality(Admitted) = 1
  /\ \A a \in Attempts :
        (att[a].pc = "returned" /\ obrk = 0) => att[a].out = osrc.elems

\* Every attempt is over: one returned with the source's elements, the
\* others panicked.
C8_Witness ==
  /\ Len(osrc.elems) = 2 /\ obrk = 0
  /\ \E a \in Attempts :
        /\ att[a].pc = "returned" /\ att[a].out = osrc.elems
        /\ \A b \in Attempts \ {a} : att[b].pc = "panic"

-----------------------------------------------------------------------------
(* Properties of the other synchronous combinators, checked under SeqSpec *)

IsPrefix(a, b) == Len(a) <= Len(b) /\ a = SubSeq(b, 1, Len(a))

\* What a consumer that breaks at its brk-th element (0: never) receives
\* of the sequence all.
Received(all, brk) ==
  IF brk = 0 \/ Len(all) < brk THEN all ELSE SubSeq(all, 1, brk)

RECURSIVE Concat(_)
Concat(ss) == IF ss = << >> THEN << >> ELSE Head(ss) \o Concat(Tail(ss))

\* The elements of the list s after its longest prefix that satisfies p.
AfterPrefix(s, p) == SubSeq(s.elems, PrefixLen(s, p) + 1, Len(s.elems))

\* C11: DropWhile(S, p) skips the longest prefix of S whose elements all
\* satisfy p and yields every element after it, in order and whatever p says
\* of it; and every drive of the same DropWhile sequence does so again,
\* skipping the prefix anew.
C11_DropWhileSkipsPrefix ==
  (d.op = "DropWhile" /\ src.kind = "elems") =>
     LET rest == AfterPrefix(src, d.pred)
     IN  /\ IsPrefix(d.out, rest)
         /\ d.status = "returned" => d.out = Received(rest, d.brk)
         /\ \A n \in 1..Len(hist) : hist[n] = Received(rest, d.brk)

\* DropWhile over <<1, 2, 1>> with p true of 1 was driven twice to the end:
\* each drive skipped the leading 1 and yielded the later 1.
C11_Witness ==
  /\ d.op = "DropWhile" /\ d.status = "returned" /\ d.brk = 0
  /\ src = FromElements(<<1, 2, 1>>) /\ d.pred = {1}
  /\ d.out = <<2, 1>>
  /\ hist = << <<2, 1>> >>

\* The elements of the sources iters, one source after the other.
ChainAll(iters) == Concat([j \in 1..Len(iters) |-> iters[j].elems])

\* The source of iters that yields the n-th element of ChainAll(iters).
Owner(iters, n) ==
  CHOOSE i \in 1..Len(iters) :
    /\ Len(ChainAll(SubSeq(iters, 1, i - 1))) < n
    /\ n <= Len(ChainAll(SubSeq(iters, 1, i)))

\* C12: a drive of Chain(S1, ..., Sk) over finite sources, k >= 0, yields
\* the elements of S1, then of S2, and so on, and when it has returned
\* without an early stop it has yielded them all and nothing else; when
\* the consumer stops it at an element of Si, nothing more is yielded or
\* pulled and no source after Si has been driven.
C12_ChainInOrder ==
  d.op = "Chain" =>
     LET all == ChainAll(d.iters)
     IN  /\ IsPrefix(d.out, all)
         /\ d.status = "returned" => d.out = Received(all, d.brk)
         /\ (d.status = "returned" /\ ~d.stopped)
               => d.driven = 1..Len(d.iters)
         /\ d.stopped =>
               /\ d.status = "returned"
               /\ d.pulled = Len(d.out)
               /\ d.driven = 1..Owner(d.iters, Len(d.out))

\* A full drive of a chain of three sources of lengths 3, 0 and 2.
C12_Witness ==
  /\ d.op = "Chain" /\ d.status = "returned" /\ ~d.stopped
  /\ Len(d.iters) = 3
  /\ Len(d.iters[1].elems) = 3
  /\ Len(d.iters[2].elems) = 0
  /\ Len(d.iters[3].elems) = 2
  /\ Len(d.out) = 5

\* A chain of three sources stopped by the consumer at the last element of
\* the first one: the second and third source were never driven.
C12_WitnessEarlyStop ==
  /\ d.op = "Chain" /\ d.stopped
  /\ Len(d.iters) = 3
  /\ Len(d.iters[1].elems) = 2 /\ Len(d.iters[2].elems) = 2
  /\ Len(d.out) = 2
  /\ d.driven = {1}

\* C13: over a non-empty finite source S, the j-th element that Cycle(S)
\* (or Cycle2(S)) yields is the element of S at index (j - 1) mod |S|, for
\* as many elements as the consumer takes: the drive returns only when the
\* consumer stops it.
C13_CyclePasses ==
  (d.op \in {"Cycle", "Cycle2"} /\ Finite(src) /\ src.elems # << >>) =>
     /\ \A j \in 1..Len(d.out) :
           d.out[j] = src.elems[((j - 1) % Len(src.elems)) + 1]
     /\ d.status = "returned" => (d.stopped /\ Len(d.out) = d.brk)
     /\ d.passes * Len(src.elems) + d.pos = Len(d.out)

\* Cycle over a source of two different elements has yielded five: two full
\* passes and the first element of the third.
C13_Witness ==
  /\ d.op = "Cycle" /\ Finite(src)
  /\ Len(src.elems) = 2 /\ src.elems[1] # src.elems[2]
  /\ Len(d.out) = 5
  /\ d.passes = 2

\* C14: a drive of Cycle(S) over an empty source S yields nothing, never
\* asks the consumer anything and never returns.
C14_CycleEmptyNeverReturns ==
  (d.op = "Cycle" /\ Finite(src) /\ src.elems = << >>) =>
     /\ d.status = "running"
     /\ d.out = << >>
     /\ ~d.stopped
     /\ (d.passes < MaxPull => ENABLED CycleStep)

\* Cycle over the empty source, under a consumer that would stop at its
\* first element, is in its fourth pass.
C14_Witness ==
  /\ d.op = "Cycle" /\ src = FromElements(<< >>)
  /\ d.brk = 1
  /\ d.passes = 3
  /\ d.status = "running"

\* The j-th element of Count(start, step), in int arithmetic.
CountAt(s, j) == Wrap(s.start + (j - 1) * s.step)

\* C15: the i-th element (from 0) that a drive of Count(start, step) yields
\* is start + i*step in int arithmetic, for positive, zero and negative
\* step; the drive returns only when the consumer stops it; and every
\* further drive of the same Count value yields the same elements from
\* start on.
C15_CountArithmetic ==
  d.op = "Count" =>
     /\ \A j \in 1..Len(d.out) : d.out[j] = CountAt(src, j)
     /\ d.status = "returned" => (d.stopped /\ Len(d.out) = d.brk)
     /\ \A n \in 1..Len(hist) :
           /\ Len(hist[n]) = d.brk
           /\ \A j \in 1..Len(hist[n]) : hist[n][j] = CountAt(src, j)

\* Count(1, -1) driven a second time has yielded 1 and 0 again.
C15_Witness ==
  /\ d.op = "Count" /\ src = Count(1, 0 - 1)
  /\ hist = << <<1, 0>> >>
  /\ d.out = <<1, 0>>
  /\ d.status = "returned"

\* Count(0, 0) has yielded five zeros and goes on.
C15_WitnessZeroStep ==
  /\ d.op = "Count" /\ src = Count(0, 0)
  /\ d.out = <<0, 0, 0, 0, 0>>
  /\ d.status = "running"

\* Count(MaxInt, 1) has yielded MaxInt and then, the addition wrapping
\* around, MinInt.
C15_WitnessWraps ==
  /\ d.op = "Count" /\ src = Count(MaxInt, 1)
  /\ d.out = <<MaxInt, MinInt>>

\* C18: the drives of FromChan(ch) yield the values sent on ch in the order
\* they were sent, each once; every value received has been yielded, so
\* what was sent and not yielded, after an early stop too, is still in the
\* channel; a drive ends by itself only when ch is closed and empty; and a
\* drive begun after ch was closed and drained yields nothing.
C18_FromChanReceipt ==
  d.op = "FromChan" =>
     /\ Concat(hist) \o d.out \o ch.buf = ch.sent
     /\ d.pulled = Len(d.out)
     /\ (d.status = "returned" /\ ~d.stopped) => (ch.closed /\ ch.buf = << >>)
     /\ (ch.closed /\ Concat(hist) = ch.sent) => d.out = << >>

\* The first drive received three values and ended on the closed channel;
\* the second drive has returned without an element.
C18_Witness ==
  /\ d.op = "FromChan" /\ d.status = "returned" /\ ~d.stopped
  /\ Len(hist) = 1 /\ Len(hist[1]) = 3
  /\ d.out = << >>
  /\ ch.closed

\* The consumer stopped the drive at the first of two values sent: the
\* second is still in the channel.
C18_WitnessEarlyStop ==
  /\ d.op = "FromChan" /\ d.stopped
  /\ Len(ch.sent) = 2 /\ Len(d.out) = 1
  /\ ch.buf = <<ch.sent[2]>>

\* C16: for a finite source S, in every interleaving of Zip's workers the
\* drive of Zip(Count(0, 1), S) yields what the drive of Enumerate(S) yields
\* to the same consumer: pair i is (i, S[i]), |S| pairs in a full drive.
C16_EnumerateSameAsZip ==
  (zsrc[1] = Count(0, 1) /\ ListSource(zsrc[2])) =>
     LET e == Drive(Enumerate(zbrk), zsrc[2]).out
     IN  /\ IsPrefix(main.out, e)
         /\ main.pc = "returned" => main.out = e
         /\ (main.pc = "returned" /\ zbrk = 0) => Len(main.out) = Len(zsrc[2].elems)

\* Zip(Count(0, 1), S) over three elements has returned with three pairs.
C16_Witness ==
  /\ zsrc[1] = Count(0, 1) /\ ListSource(zsrc[2])
  /\ Len(zsrc[2].elems) = 3 /\ zbrk = 0
  /\ main.pc = "returned"
  /\ Len(main.out) = 3
  /\ main.out[3] = <<2, zsrc[2].elems[3]>>

\* The consumer of attempt a of a Once sequence has answered false.
OnceStopped(a) == obrk > 0 /\ Len(att[a].out) >= obrk

\* C17: once the consumer has answered false in a drive of a synchronous
\* combinator, the drive has returned having called the consumer exactly up
\* to that answer, and from then on nothing of the drive changes: no further
\* call of the consumer, no further element pulled from the upstream source
\* or received from the channel.
C17_EarlyStopPropagates ==
  /\ [](d.stopped => (d.status = "returned" /\ Len(d.out) = d.brk))
  /\ [][(d.stopped /\ hist' = hist) => (d' = d /\ IsPrefix(ch.buf, ch'.buf))]_vars
  /\ [](\A a \in DOMAIN att :
          OnceStopped(a) => /\ att[a].pc = "returned"
                            /\ Len(att[a].out) = obrk
                            /\ att[a].pulled = obrk)
  /\ [][\A a \in DOMAIN att : OnceStopped(a) => att'[a] = att[a]]_vars

\* Cycle, stopped by its consumer in the second pass over its source.
C17_Witness ==
  /\ d.op = "Cycle" /\ d.stopped
  /\ d.passes = 1
  /\ d.pulled = 2

\* DropWhile, stopped by its consumer after it skipped an element.
C17_WitnessDropWhile ==
  /\ d.op = "DropWhile" /\ d.stopped
  /\ d.pulled > Len(d.out)
  /\ d.pulled < Len(src.elems)

\* An attempt on a Once sequence, stopped by its consumer.
C17_WitnessOnce ==
  \E a \in DOMAIN att : OnceStopped(a) /\ Len(osrc.elems) > obrk

\* C19: in a drive of Zip only a step of the driving loop calls the
\* consumer, one call per step and none by a worker; once the consumer has
\* answered false, done is closed and the loop has returned; and once done is
\* closed the consumer is not called again and no worker's send is received.
C19_ZipCallbackSafety ==
  /\ [][main'.out # main.out =>
          /\ main.pc = "yield"
          /\ main'.out = Append(main.out, <<main.k, main.v>>)
          /\ wk' = wk]_vars
  /\ [](main.stopped => (done /\ main.pc = "returned" /\ Len(main.out) = zbrk))
  /\ [][done => /\ main'.out = main.out
                /\ \A w \in 1..2 : ~(wk[w].pc = "select" /\ wk'[w].pc = "pull")]_vars

\* The consumer has answered false at the second pair while a worker was
\* waiting to hand over its next element.
C19_Witness ==
  /\ main.stopped /\ done /\ main.pc = "returned"
  /\ Len(main.out) = 2
  /\ \E w \in 1..2 : wk[w].pc = "select"

\* The number of pairs of a full drive of Zip(a, b), one of them finite.
ZipLen(a, b) ==
  IF Finite(a) /\ Finite(b) THEN Min(Len(a.elems), Len(b.elems))
  ELSE IF Finite(a) THEN Len(a.elems) ELSE Len(b.elems)

\* The first n pairs of Zip(a, b).
ZipPairs(a, b, n) == [j \in 1..n |-> <<SrcAt(a, j - 1), SrcAt(b, j - 1)>>]

\* C20: over restartable sources, every pass that Cycle2 makes over a Zip
\* sequence yields the pairs of the two sources index by index, from the
\* first pair on, and a pass that ran to the end has yielded all of them:
\* the same pairs in the same order on every pass, whatever the workers of
\* the pass before are doing.
C20_ZipRestartable ==
  /\ \A j \in 1..Len(main.out) :
        main.out[j] = <<SrcAt(zsrc[1], j - 1), SrcAt(zsrc[2], j - 1)>>
  /\ (Finite(zsrc[1]) \/ Finite(zsrc[2])) =>
        LET all == ZipPairs(zsrc[1], zsrc[2], ZipLen(zsrc[1], zsrc[2]))
        IN  /\ \A n \in 1..Len(prev.outs) : prev.outs[n] = all
            /\ (main.pc = "returned" /\ ~main.stopped) => main.out = all
            /\ main.stopped => Len(main.out) <= Len(all)

\* The second pass has yielded the two pairs of the first pass again while
\* a worker of the first pass has not yet terminated.
C20_Witness ==
  /\ Len(prev.outs) = 1
  /\ Len(prev.outs[1]) = 2
  /\ main.out = prev.outs[1]
  /\ \E w \in 1..2 : prev.wk[w].pc \in {"pull", "select", "close"}

-----------------------------------------------------------------------------
(* Properties of Zip's channels, checked under ZipSpec *)

\* The step is one of the two close(done) statements of the driving loop.
ClosesDone ==
  \/ main.pc = "check" /\ EitherExhausted(main.ok1, main.ok2) /\ main'.pc # "check"
  \/ main.pc = "yield" /\ main'.stopped

\* C21: in a drive of Zip, close(done) is executed by the driving loop only
\* and never on a closed done; the channel of a worker is closed by the
\* deferred close of that worker only, when its source has returned, never
\* twice, and is closed exactly when the worker is gone; and a worker
\* waiting to send waits on an open channel.
C21_ZipChannelsSafe ==
  /\ [][ClosesDone => ~done]_vars
  /\ [][done' # done => (main.pc \in {"check", "yield"} /\ wk' = wk)]_vars
  /\ [][\A w \in 1..2 :
          chClosed'[w] # chClosed[w] =>
             /\ wk[w].pc = "close" /\ wk'[w].pc = "exit"
             /\ main' = main
             /\ chClosed'[3 - w] = chClosed[3 - w]]_vars
  /\ [](\A w \in 1..2 :
          /\ wk[w].pc = "close" => ~chClosed[w]
          /\ wk[w].pc = "select" => ~chClosed[w]
          /\ wk[w].pc = "exit" <=> chClosed[w])

\* The consumer stopped the drive; done is closed and both workers have
\* closed their channels, one of them after its select took the done case.
C21_Witness ==
  /\ main.stopped /\ done
  /\ \A w \in 1..2 : wk[w].pc = "exit" /\ chClosed[w]
  /\ \E w \in 1..2 : wk[w].pulled > Len(main.out)

\* The elements of source w that the driving loop has received.
Handed(w) ==
  LET inHand == IF w = 1 THEN main.pc \in {"recv2", "check", "yield"}
                ELSE main.pc \in {"check", "yield"}
      kept == main.pc = "returned" /\ ~main.stopped
      ok == IF w = 1 THEN main.ok1 ELSE main.ok2
  IN  Len(main.out) + (IF (inHand \/ kept) /\ ok THEN 1 ELSE 0)

\* C22: at every moment of a drive of Zip that has yielded p pairs, each
\* worker has pulled at most p + 2 elements from its source, and at most
\* one element that it pulled has not been received by the driving loop.
C22_ZipReadAhead ==
  \A w \in 1..2 :
     /\ wk[w].pulled <= Len(main.out) + 2
     /\ wk[w].pulled >= Handed(w)
     /\ wk[w].pulled - Handed(w) <= 1

\* A drive that yielded one pair has returned with a worker having
\* pulled three elements.
C22_Witness ==
  /\ main.pc = "returned"
  /\ Len(main.out) = 1
  /\ \E w \in 1..2 : wk[w].pulled = 3

-----------------------------------------------------------------------------
(* Properties of Once's flag and mutex, checked under OnceFairSpec *)

\* C23: an attempt that is iterating the upstream source, or is through
\* with it however few elements it yielded, has already set consumed and
\* does not hold the mutex; consumed is never cleared, so an attempt that
\* finds it set goes to the reuse error; an attempt that raised the error
\* does not hold the mutex either; and every attempt that has yet to call
\* Lock when consumed is set does get the mutex and ends in the reuse error.
C23_OnceMarksAtStart ==
  /\ [](\A a \in Attempts :
          /\ att[a].pc \in {"unlock", "iter", "returned"} => consumed
          /\ att[a].pc \in {"start", "iter", "returned", "panic"} => mu # a)
  /\ [][consumed => consumed']_vars
  /\ [][\A a \in Attempts :
          (consumed /\ att[a].pc = "locked") => att'[a].pc \in {"locked", "reject"}]_vars
  /\ \A a \in Attempts : (consumed /\ att[a].pc = "start") ~> (att[a].pc = "panic")

\* The first drive was stopped by its consumer after one of two elements;
\* every other attempt has raised the reuse error and the mutex is free.
C23_Witness ==
  /\ Len(osrc.elems) = 2 /\ obrk = 1
  /\ mu = 0
  /\ \E a \in Attempts :
        /\ att[a].pc = "returned" /\ Len(att[a].out) = 1
        /\ \A b \in Attempts \ {a} : att[b].pc = "panic"

\* The first drive yielded no element, the source being empty; every other
\* attempt has raised the reuse error.
C23_WitnessNoElement ==
  /\ osrc.elems = << >>
  /\ mu = 0
  /\ \E a \in Attempts :
        /\ att[a].pc = "returned" /\ att[a].out = << >>
        /\ \A b \in Attempts \ {a} : att[b].pc = "panic"

-----------------------------------------------------------------------------
(* Properties of Slice's pulls, checked under Spec *)

\* A drive of Slice or Take with the arguments the guard lets through and
\* the loop can evaluate.
WindowDrive ==
  d.op \in {"Slice", "Take"} /\ d.start >= 0 /\ d.stop >= 0 /\ d.step >= 1

\* C24: a drive of Slice(S, start, stop, step), and so of Take(S, n), has
\* pulled at most stop elements from S.
C24_SlicePullsWithinWindow == WindowDrive => d.pulled <= d.stop

\* With stop >= 1 it has: at most stop elements are pulled, and a drive
\* that the window ended returned right after the element at index
\* stop - 1.
C24_SlicePullsWithinWindowFromOne ==
  (WindowDrive /\ d.stop >= 1) =>
     /\ d.pulled <= d.stop
     /\ (d.status = "returned" /\ ~d.stopped /\ SrcHasNext(src, d.stop - 1))
           => d.pulled = d.stop

\* With stop = 0 the drive pulls the first element of a source that has
\* one, yields nothing and returns.
C24_ZeroStopPullsOne ==
  (WindowDrive /\ d.stop = 0 /\ d.status = "returned" /\ SrcHasNext(src, 0))
     => (d.pulled = 1 /\ d.out = << >>)

\* Take(S, 0) over a source of two elements has returned, one element
\* pulled.
C24_WitnessZeroStop ==
  /\ d.op = "Take" /\ d.stop = 0
  /\ Len(src.elems) = 2
  /\ d.status = "returned"
  /\ d.pulled = 1

====
